---- MODULE Spec2Model ----
(***************************************************************************)
(* Model of libkernel/src/sync/rwlock.rs: the asynchronous reader-writer   *)
(* lock.  Every atomic access of lock_state and last_woken_was_writer is   *)
(* one step, so the steps of polls and guard drops running on different    *)
(* cores interleave as the instructions of the code may.  A critical       *)
(* section that takes one queue spinlock and touches only that queue is    *)
(* one step; the write-guard drop, which takes both spinlocks, acquires    *)
(* them in separate steps.  A pending future may be polled again at any    *)
(* time (the Future contract allows polls without a wake-up).              *)
(* lock_state is an AtomicI32; it stays within -(NReaders+1)..NReaders     *)
(* here (TypeOK), so its width plays no role.                              *)
(*                                                                         *)
(* Spec is the lock used by NReaders readers and NWriters writers,         *)
(* including futures that are dropped while pending.  HistSpec adds the    *)
(* history of the write-guard releases, DataSpec the protected value with  *)
(* mutation through a write guard and into_inner; both run one reader.     *)
(***************************************************************************)
EXTENDS Integers, Sequences, FiniteSets, TLC

\* Number of tasks that call read() and number of tasks that call write().
NReaders == 2

NWriters == 2

Readers == 1..NReaders

Writers == (NReaders + 1)..(NReaders + NWriters)

Tasks == Readers \cup Writers

\* Value of a spinlock that nobody holds.
NoTask == 0

\* The value Rwlock::new is given; a writer stores its own task number.
InitValue == 0

Values == {InitValue} \cup Writers

\* No value: into_inner has not returned, nothing written through the guard.
NoValue == -1

VARIABLES
    lock_state,             \* RwlockState::lock_state (AtomicI32)
    read_waiters,           \* RwlockState::read_waiters (VecDeque<Waker>)
    write_waiters,          \* RwlockState::write_waiters (VecDeque<Waker>)
    last_woken_was_writer,  \* RwlockState::last_woken_was_writer (AtomicBool)
    read_lock,              \* holder of the SpinLockIrq around read_waiters
    write_lock,             \* holder of the SpinLockIrq around write_waiters
    pc,                     \* per task: position inside poll / drop
    was_writer,             \* per task: local `was_writer` of write-guard drop
    scan,                   \* per task: result of the `all(!will_wake)` scan
    woken,                  \* per task: waker invoked since its last poll began
    woke,                   \* wakers invoked by the latest step, in call order
    write_order,            \* history: writers still waiting for their guard,
                            \* in the order of their first registration
    release_run,            \* history (kept by HistSpec only): parity of the
                            \* number of write-guard drops begun so far, or
                            \* "broken" once a write-guard release has found
                            \* a waiter queue empty
    turn,                   \* history (kept by HistSpec only): per task, the
                            \* value of release_run when its drop began
    data,                   \* Rwlock::data (UnsafeCell<T>), the protected value
    inner,                  \* the value into_inner returned (NoValue: the lock
                            \* has not been consumed)
    written,                \* per task: the value it has written through the
                            \* write guard it holds (NoValue: none)
    last_write              \* history: the value of the latest mutation made
                            \* through a write guard

vars == <<lock_state, read_waiters, write_waiters, last_woken_was_writer,
          read_lock, write_lock, pc, was_writer, scan, woken, woke,
          write_order, release_run, turn, data, inner, written, last_write>>

\* The protected value and what has been done to it (kept by DataSpec only).
data_vars == <<data, inner, written, last_write>>

\* Positions at which a task owns a live read guard (a guard lives until its
\* drop returns).
ReadGuardPcs == {"r_held", "rd_dec", "rd_store", "rd_wake"}

\* Positions at which a task owns a live write guard.
WriteGuardPcs == {"w_held", "wd_flag_loaded", "wd_flag_stored",
                  "wd_state_stored", "wd_rlocked", "wd_wlocked"}

\* Positions between two operations: no poll and no drop is executing.
RestPcs == {"idle", "r_pending", "r_held", "w_pending", "w_held"}

ReadGuards == {t \in Tasks : pc[t] \in ReadGuardPcs}

WriteGuards == {t \in Tasks : pc[t] \in WriteGuardPcs}

\* Guards in use: acquired and their drop not yet begun.
ReadHeld == {t \in Tasks : pc[t] = "r_held"}

WriteHeld == {t \in Tasks : pc[t] = "w_held"}

\* No poll and no drop is mid-execution on any core.
Quiescent == \A t \in Tasks : pc[t] \in RestPcs

\* unreachable!() panics; a kernel panic halts every core.
Panicked == \E t \in Tasks : pc[t] = "panicked"

\* Waker::will_wake: the two wakers wake the same task.
will_wake(w, t) == w = t

\* Mutant of AllNotWake: the dedup scan is skipped and every poll pushes.
AllNotWakeNoScan(q, t) == TRUE

\* waiters.iter().all(|w| !w.will_wake(cx.waker()))
AllNotWake(q, t) == \A i \in 1..Len(q) : ~will_wake(q[i], t)

\* Mutant of PushBackIf: push_front in place of push_back.
PushFrontIf(q, t, ok) == IF ok THEN <<t>> \o q ELSE q

\* if <scan result> { waiters.push_back(cx.waker().clone()); }
PushBackIf(q, t, ok) == IF ok THEN Append(q, t) ELSE q

\* q without the entries of task t.
Without(q, t) == SelectSeq(q, LAMBDA x : x # t)

\* Entry a stands ahead of entry b in q.
Before(q, a, b) ==
    \E i, j \in 1..Len(q) : i < j /\ q[i] = a /\ q[j] = b

\* Mutant of PopFront: the front waker is cloned and woken but not removed.
PopFrontKeep(q) == q

\* What pop_front leaves in the queue.
PopFront(q) == IF q = <<>> THEN q ELSE Tail(q)

\* if let Some(next_waker) = waiters.pop_front() { next_waker.wake(); }
\* the wakers this invokes.
PopWoke(q) == IF q = <<>> THEN <<>> ELSE <<Head(q)>>

\* Positions of a task whose acquisition future is unresolved.
WaitingPcs == {"r_pending", "rp_inc", "rp_queue", "w_pending", "wp_claim",
               "wp_queue"}

\* Waker::wake on each waker of s: a task whose future is unresolved becomes
\* runnable; on any other task the wake is inert.
WakeAll(wk, s, p) ==
    [t \in Tasks |-> wk[t] \/ (p[t] \in WaitingPcs /\ \E i \in 1..Len(s) : s[i] = t)]

\* Mutant of WakeReaders: decides on the toggled flag, not on its prior value.
WakeReadersToggled(ww, rq, wq) == (~ww /\ rq # <<>>) \/ wq = <<>>

\* (was_writer && !read_waiters.is_empty()) || write_waiters.is_empty()
WakeReaders(ww, rq, wq) == (ww /\ rq # <<>>) \/ wq = <<>>

\* The wakers the write-guard drop invokes: every popped reader, in queue
\* order, or the front writer.
WriteDropWoke(ww, rq, wq) == IF WakeReaders(ww, rq, wq) THEN rq ELSE PopWoke(wq)

\* read_waiters after the write-guard drop's wake phase.
WriteDropReadQueue(ww, rq, wq) == IF WakeReaders(ww, rq, wq) THEN <<>> ELSE rq

\* write_waiters after the write-guard drop's wake phase.
WriteDropWriteQueue(ww, rq, wq) == IF WakeReaders(ww, rq, wq) THEN wq ELSE PopFront(wq)

TypeOK ==
    /\ lock_state \in -(NReaders + 1)..NReaders
    /\ read_waiters \in Seq(Readers)
    /\ write_waiters \in Seq(Writers)
    /\ last_woken_was_writer \in BOOLEAN
    /\ read_lock \in Tasks \cup {NoTask}
    /\ write_lock \in Tasks \cup {NoTask}
    /\ was_writer \in [Tasks -> BOOLEAN]
    /\ scan \in [Tasks -> BOOLEAN]
    /\ woken \in [Tasks -> BOOLEAN]
    /\ woke \in Seq(Tasks)
    /\ write_order \in Seq(Writers)
    /\ release_run \in {"even", "odd", "broken"}
    /\ turn \in [Tasks -> {"even", "odd", "broken"}]
    /\ data \in Values
    /\ inner \in Values \cup {NoValue}
    /\ written \in [Tasks -> Values \cup {NoValue}]
    /\ last_write \in Values

\* Rwlock::new
Init ==
    /\ lock_state = 0
    /\ read_waiters = <<>>
    /\ write_waiters = <<>>
    /\ last_woken_was_writer = FALSE
    /\ read_lock = NoTask
    /\ write_lock = NoTask
    /\ pc = [t \in Tasks |-> "idle"]
    /\ was_writer = [t \in Tasks |-> FALSE]
    /\ scan = [t \in Tasks |-> TRUE]
    /\ woken = [t \in Tasks |-> FALSE]
    /\ woke = <<>>
    /\ write_order = <<>>
    /\ release_run = "even"
    /\ turn = [t \in Tasks |-> "even"]
    /\ data = InitValue
    /\ inner = NoValue
    /\ written = [t \in Tasks |-> NoValue]
    /\ last_write = InitValue

----------------------------------------------------------------------------
\* RwlockReadGuardFuture::poll

\* Mutant of ReadPollArm: readers enter only an unlocked lock (v = 0) and
\* queue behind active readers.
ReadPollArmOnlyUnlocked(v) ==
    IF v = 0 THEN "rp_inc" ELSE IF v >= -1 THEN "rp_queue" ELSE "panicked"

\* Mutant of ReadPollArm: the fast-path arm is `1..`, so that a reader queues
\* on the unlocked lock.
ReadPollArmFromOne(v) ==
    IF v >= 1 THEN "rp_inc" ELSE IF v >= -1 THEN "rp_queue" ELSE "panicked"

\* The arm of `match lock_state.load(Acquire)` in the read poll:
\* 0.. => fetch_add, -1 => register, _ => unreachable!().
ReadPollArm(v) ==
    IF v >= 0 THEN "rp_inc" ELSE IF v = -1 THEN "rp_queue" ELSE "panicked"

\* match self.rwlock.state.lock_state.load(Ordering::Acquire) { ... }
ReadPollLoad(t) ==
    /\ ~Panicked
    /\ pc[t] \in {"idle", "r_pending"}
    /\ woken' = [woken EXCEPT ![t] = FALSE]
    /\ scan' = [scan EXCEPT ![t] = TRUE]
    /\ pc' = [pc EXCEPT ![t] = ReadPollArm(lock_state)]
    /\ woke' = <<>>
    /\ UNCHANGED <<lock_state, read_waiters, write_waiters,
                   last_woken_was_writer, read_lock, write_lock, was_writer,
                   write_order, release_run, turn, data_vars>>

\* 0.. => { lock_state.fetch_add(1, AcqRel); Poll::Ready(AsyncRwlockReadGuard) }
ReadPollAcquire(t) ==
    /\ ~Panicked
    /\ pc[t] = "rp_inc"
    /\ lock_state' = lock_state + 1
    /\ woken' = [woken EXCEPT ![t] = FALSE]
    /\ pc' = [pc EXCEPT ![t] = "r_held"]
    /\ woke' = <<>>
    /\ UNCHANGED <<read_waiters, write_waiters, last_woken_was_writer,
                   read_lock, write_lock, was_writer, scan, write_order,
                   release_run, turn, data_vars>>

\* -1 => { lock read_waiters; if all(!will_wake) { push_back(waker) }; Pending }
ReadPollRegister(t) ==
    /\ ~Panicked
    /\ pc[t] = "rp_queue"
    /\ read_lock = NoTask
    /\ scan' = [scan EXCEPT ![t] = AllNotWake(read_waiters, t)]
    /\ read_waiters' = PushBackIf(read_waiters, t, AllNotWake(read_waiters, t))
    /\ pc' = [pc EXCEPT ![t] = "r_pending"]
    /\ woke' = <<>>
    /\ UNCHANGED <<lock_state, write_waiters, last_woken_was_writer,
                   read_lock, write_lock, was_writer, woken, write_order,
                   release_run, turn, data_vars>>

\* The future is dropped while pending (the caller gives up the acquisition).
\* RwlockReadGuardFuture has no Drop impl: nothing is removed from the queue;
\* the locals of the future (woken, scan) are gone.
ReadCancel(t) ==
    /\ ~Panicked
    /\ pc[t] = "r_pending"
    /\ woken' = [woken EXCEPT ![t] = FALSE]
    /\ scan' = [scan EXCEPT ![t] = TRUE]
    /\ pc' = [pc EXCEPT ![t] = "idle"]
    /\ woke' = <<>>
    /\ UNCHANGED <<lock_state, read_waiters, write_waiters,
                   last_woken_was_writer, read_lock, write_lock, was_writer,
                   write_order, release_run, turn, data_vars>>

----------------------------------------------------------------------------
\* Drop for AsyncRwlockReadGuard

\* The arm of `match lock_state.load(Acquire)` in the read-guard drop:
\* 2.. => fetch_sub, 1 => store(0) and wake a writer, _ => unreachable!().
ReadDropArm(v) ==
    IF v >= 2 THEN "rd_dec" ELSE IF v = 1 THEN "rd_store" ELSE "panicked"

\* match self.rwlock.state.lock_state.load(Ordering::Acquire) { ... }
ReadDropLoad(t) ==
    /\ ~Panicked
    /\ pc[t] = "r_held"
    /\ pc' = [pc EXCEPT ![t] = ReadDropArm(lock_state)]
    /\ woke' = <<>>
    /\ UNCHANGED <<lock_state, read_waiters, write_waiters,
                   last_woken_was_writer, read_lock, write_lock, was_writer,
                   scan, woken, write_order, release_run, turn, data_vars>>

\* 2.. => { lock_state.fetch_sub(1, AcqRel); }
ReadDropDecrement(t) ==
    /\ ~Panicked
    /\ pc[t] = "rd_dec"
    /\ lock_state' = lock_state - 1
    /\ pc' = [pc EXCEPT ![t] = "idle"]
    /\ woke' = <<>>
    /\ UNCHANGED <<read_waiters, write_waiters, last_woken_was_writer,
                   read_lock, write_lock, was_writer, scan, woken,
                   write_order, release_run, turn, data_vars>>

\* 1 => { lock_state.store(0, Release);
ReadDropStore(t) ==
    /\ ~Panicked
    /\ pc[t] = "rd_store"
    /\ lock_state' = 0
    /\ pc' = [pc EXCEPT ![t] = "rd_wake"]
    /\ woke' = <<>>
    /\ UNCHANGED <<read_waiters, write_waiters, last_woken_was_writer,
                   read_lock, write_lock, was_writer, scan, woken,
                   write_order, release_run, turn, data_vars>>

\* lock write_waiters; if let Some(w) = write_waiters.pop_front() { w.wake(); } }
ReadDropWake(t) ==
    /\ ~Panicked
    /\ pc[t] = "rd_wake"
    /\ write_lock = NoTask
    /\ woke' = PopWoke(write_waiters)
    /\ woken' = WakeAll(woken, PopWoke(write_waiters), pc)
    /\ write_waiters' = PopFront(write_waiters)
    /\ pc' = [pc EXCEPT ![t] = "idle"]
    /\ UNCHANGED <<lock_state, read_waiters, last_woken_was_writer,
                   read_lock, write_lock, was_writer, scan, write_order,
                   release_run, turn, data_vars>>

----------------------------------------------------------------------------
\* RwlockWriteGuardFuture::poll

\* Mutant of WritePollArm: the claiming arm is `0..`, so that a writer claims
\* the lock over active readers.
WritePollArmNonNegative(v) == IF v >= 0 THEN "wp_claim" ELSE "wp_queue"

\* The arm of `match lock_state.load(Acquire)` in the write poll:
\* 0 => store(-1), _ => register.
WritePollArm(v) == IF v = 0 THEN "wp_claim" ELSE "wp_queue"

\* match self.rwlock.state.lock_state.load(Ordering::Acquire) { ... }
WritePollLoad(t) ==
    /\ ~Panicked
    /\ pc[t] \in {"idle", "w_pending"}
    /\ woken' = [woken EXCEPT ![t] = FALSE]
    /\ scan' = [scan EXCEPT ![t] = TRUE]
    /\ pc' = [pc EXCEPT ![t] = WritePollArm(lock_state)]
    /\ woke' = <<>>
    /\ UNCHANGED <<lock_state, read_waiters, write_waiters,
                   last_woken_was_writer, read_lock, write_lock, was_writer,
                   write_order, release_run, turn, data_vars>>

\* 0 => { lock_state.store(-1, Release); Poll::Ready(AsyncRwlockWriteGuard) }
WritePollClaimCore(t) ==
    /\ ~Panicked
    /\ pc[t] = "wp_claim"
    /\ lock_state' = -1
    /\ woken' = [woken EXCEPT ![t] = FALSE]
    /\ write_order' = Without(write_order, t)
    /\ pc' = [pc EXCEPT ![t] = "w_held"]
    /\ woke' = <<>>
    /\ UNCHANGED <<read_waiters, write_waiters, last_woken_was_writer,
                   read_lock, write_lock, was_writer, scan, release_run,
                   turn>>

\* The `0 =>` arm of the write poll.
WritePollClaim(t) == WritePollClaimCore(t) /\ UNCHANGED data_vars

\* _ => { lock write_waiters; if all(!will_wake) { push_back(waker) }; Pending }
WritePollRegister(t) ==
    /\ ~Panicked
    /\ pc[t] = "wp_queue"
    /\ write_lock = NoTask
    /\ scan' = [scan EXCEPT ![t] = AllNotWake(write_waiters, t)]
    /\ write_waiters' = PushBackIf(write_waiters, t, AllNotWake(write_waiters, t))
    /\ write_order' = PushBackIf(write_order, t, AllNotWake(write_order, t))
    /\ pc' = [pc EXCEPT ![t] = "w_pending"]
    /\ woke' = <<>>
    /\ UNCHANGED <<lock_state, read_waiters, last_woken_was_writer,
                   read_lock, write_lock, was_writer, woken, release_run,
                   turn, data_vars>>

\* The future is dropped while pending (the caller gives up the acquisition).
\* RwlockWriteGuardFuture has no Drop impl: nothing is removed from the queue;
\* the locals of the future (woken, scan) are gone.
WriteCancel(t) ==
    /\ ~Panicked
    /\ pc[t] = "w_pending"
    /\ woken' = [woken EXCEPT ![t] = FALSE]
    /\ scan' = [scan EXCEPT ![t] = TRUE]
    /\ write_order' = Without(write_order, t)
    /\ pc' = [pc EXCEPT ![t] = "idle"]
    /\ woke' = <<>>
    /\ UNCHANGED <<lock_state, read_waiters, write_waiters,
                   last_woken_was_writer, read_lock, write_lock, was_writer,
                   release_run, turn, data_vars>>

----------------------------------------------------------------------------
\* Drop for AsyncRwlockWriteGuard

\* let was_writer = last_woken_was_writer.load(Ordering::Acquire);
WriteDropLoadFlagCore(t) ==
    /\ ~Panicked
    /\ pc[t] = "w_held"
    /\ was_writer' = [was_writer EXCEPT ![t] = last_woken_was_writer]
    /\ pc' = [pc EXCEPT ![t] = "wd_flag_loaded"]
    /\ woke' = <<>>
    /\ UNCHANGED <<lock_state, read_waiters, write_waiters,
                   last_woken_was_writer, read_lock, write_lock, scan, woken,
                   write_order>>

\* The first step of the write-guard drop.
WriteDropLoadFlag(t) ==
    WriteDropLoadFlagCore(t) /\ UNCHANGED <<release_run, turn, data_vars>>

\* last_woken_was_writer.store(!was_writer, Ordering::Release);
WriteDropStoreFlag(t) ==
    /\ ~Panicked
    /\ pc[t] = "wd_flag_loaded"
    /\ last_woken_was_writer' = ~was_writer[t]
    /\ pc' = [pc EXCEPT ![t] = "wd_flag_stored"]
    /\ woke' = <<>>
    /\ UNCHANGED <<lock_state, read_waiters, write_waiters, read_lock,
                   write_lock, was_writer, scan, woken, write_order,
                   release_run, turn, data_vars>>

\* lock_state.store(0, Ordering::Release);
WriteDropStoreState(t) ==
    /\ ~Panicked
    /\ pc[t] = "wd_flag_stored"
    /\ lock_state' = 0
    /\ pc' = [pc EXCEPT ![t] = "wd_state_stored"]
    /\ woke' = <<>>
    /\ UNCHANGED <<read_waiters, write_waiters, last_woken_was_writer,
                   read_lock, write_lock, was_writer, scan, woken,
                   write_order, release_run, turn, data_vars>>

\* Mutant of WriteDropLockRead: the first lock the drop takes is the one of
\* write_waiters, the opposite order.
WriteDropLockWriteFirst(t) ==
    /\ ~Panicked
    /\ pc[t] = "wd_state_stored"
    /\ write_lock = NoTask
    /\ write_lock' = t
    /\ pc' = [pc EXCEPT ![t] = "wd_rlocked"]
    /\ woke' = <<>>
    /\ UNCHANGED <<lock_state, read_waiters, write_waiters,
                   last_woken_was_writer, read_lock, was_writer, scan,
                   woken, write_order, release_run, turn, data_vars>>

\* let read_waiters = &mut self.rwlock.state.read_waiters.lock_save_irq();
WriteDropLockRead(t) ==
    /\ ~Panicked
    /\ pc[t] = "wd_state_stored"
    /\ read_lock = NoTask
    /\ read_lock' = t
    /\ pc' = [pc EXCEPT ![t] = "wd_rlocked"]
    /\ woke' = <<>>
    /\ UNCHANGED <<lock_state, read_waiters, write_waiters,
                   last_woken_was_writer, write_lock, was_writer, scan,
                   woken, write_order, release_run, turn, data_vars>>

\* let write_waiters = &mut self.rwlock.state.write_waiters.lock_save_irq();
WriteDropLockWrite(t) ==
    /\ ~Panicked
    /\ pc[t] = "wd_rlocked"
    /\ write_lock = NoTask
    /\ write_lock' = t
    /\ pc' = [pc EXCEPT ![t] = "wd_wlocked"]
    /\ woke' = <<>>
    /\ UNCHANGED <<lock_state, read_waiters, write_waiters,
                   last_woken_was_writer, read_lock, was_writer, scan, woken,
                   write_order, release_run, turn, data_vars>>

\* if WakeReaders { drain read_waiters, waking each } else if let Some(w) =
\* write_waiters.pop_front() { w.wake() }   (both queue locks released)
WriteDropWakeCore(t) ==
    /\ ~Panicked
    /\ pc[t] = "wd_wlocked"
    /\ woke' = WriteDropWoke(was_writer[t], read_waiters, write_waiters)
    /\ woken' = WakeAll(woken, WriteDropWoke(was_writer[t], read_waiters, write_waiters), pc)
    /\ read_waiters' = WriteDropReadQueue(was_writer[t], read_waiters, write_waiters)
    /\ write_waiters' = WriteDropWriteQueue(was_writer[t], read_waiters, write_waiters)
    /\ read_lock' = NoTask
    /\ write_lock' = NoTask
    /\ was_writer' = [was_writer EXCEPT ![t] = FALSE]
    /\ pc' = [pc EXCEPT ![t] = "idle"]
    /\ UNCHANGED <<lock_state, last_woken_was_writer, scan, write_order>>

\* The wake phase of the write-guard drop.
WriteDropWake(t) ==
    WriteDropWakeCore(t) /\ UNCHANGED <<release_run, turn, data_vars>>

----------------------------------------------------------------------------
Next ==
    \/ \E t \in Readers :
        \/ ReadPollLoad(t)
        \/ ReadPollAcquire(t)
        \/ ReadPollRegister(t)
        \/ ReadCancel(t)
        \/ ReadDropLoad(t)
        \/ ReadDropDecrement(t)
        \/ ReadDropStore(t)
        \/ ReadDropWake(t)
    \/ \E t \in Writers :
        \/ WritePollLoad(t)
        \/ WritePollClaim(t)
        \/ WritePollRegister(t)
        \/ WriteCancel(t)
        \/ WriteDropLoadFlag(t)
        \/ WriteDropStoreFlag(t)
        \/ WriteDropStoreState(t)
        \/ WriteDropLockRead(t)
        \/ WriteDropLockWrite(t)
        \/ WriteDropWake(t)

Spec == Init /\ [][Next]_vars

----------------------------------------------------------------------------
\* The lock with its history recorded.  Spec leaves every history variable
\* at its initial value; HistSpec keeps them, and to make room for them only
\* one of the readers takes part.  With a single reader lock_state never
\* reaches 2, so the `2..` arm of the read-guard drop (ReadDropDecrement) is
\* never entered and is left out of HistNext.

HistReaders == {1}

\* release_run after one more write-guard drop has begun.
Flip(run) == IF run = "even" THEN "odd" ELSE IF run = "odd" THEN "even" ELSE run

\* release_run after a write-guard release that found the queues rq and wq.
AfterRelease(run, rq, wq) == IF rq = <<>> \/ wq = <<>> THEN "broken" ELSE run

\* The first step of the write-guard drop, counted in release_run: the drop
\* takes the next place in the sequence of write-guard releases.
WriteDropLoadFlagCounted(t) ==
    /\ WriteDropLoadFlagCore(t)
    /\ turn' = [turn EXCEPT ![t] = release_run]
    /\ release_run' = Flip(release_run)
    /\ UNCHANGED data_vars

\* The wake phase of the write-guard drop, recorded in release_run.
WriteDropWakeCounted(t) ==
    /\ WriteDropWakeCore(t)
    /\ turn' = [turn EXCEPT ![t] = "even"]
    /\ release_run' = AfterRelease(release_run, read_waiters, write_waiters)
    /\ UNCHANGED data_vars

HistNext ==
    \/ \E t \in HistReaders :
        \/ ReadPollLoad(t)
        \/ ReadPollAcquire(t)
        \/ ReadPollRegister(t)
        \/ ReadCancel(t)
        \/ ReadDropLoad(t)
        \/ ReadDropStore(t)
        \/ ReadDropWake(t)
    \/ \E t \in Writers :
        \/ WritePollLoad(t)
        \/ WritePollClaim(t)
        \/ WritePollRegister(t)
        \/ WriteCancel(t)
        \/ WriteDropLoadFlagCounted(t)
        \/ WriteDropStoreFlag(t)
        \/ WriteDropStoreState(t)
        \/ WriteDropLockRead(t)
        \/ WriteDropLockWrite(t)
        \/ WriteDropWakeCounted(t)

HistSpec == Init /\ [][HistNext]_vars

----------------------------------------------------------------------------
\* The lock with the value it protects.  Spec and HistSpec leave the value
\* alone; DataSpec adds the mutation through a write guard and into_inner,
\* again with one reader.

\* The `0 =>` arm of the write poll; the guard it returns has written nothing.
WritePollClaimData(t) ==
    /\ WritePollClaimCore(t)
    /\ written' = [written EXCEPT ![t] = NoValue]
    /\ UNCHANGED <<data, inner, last_write>>

\* The other tasks whose write guard is in use or whose drop has not yet
\* executed its first Release store: their plain stores to the value may
\* still be in flight.
RacingWriters(t) ==
    {u \in Writers \ {t} : pc[u] \in {"w_held", "wd_flag_loaded"}}

\* What the value can be after task t stores v through its guard: v, or,
\* when the store races with the stores of another live write guard (a data
\* race on the UnsafeCell, undefined behaviour), the value that guard wrote.
StoreOutcomes(t, v) ==
    {v} \cup ({written[u] : u \in RacingWriters(t)} \ {NoValue})

\* *guard = v through DerefMut (unsafe { &mut *self.rwlock.data.get() });
\* one store per guard, of the writer's own task number.
GuardWrite(t) ==
    /\ ~Panicked
    /\ pc[t] = "w_held"
    /\ written[t] = NoValue
    /\ written' = [written EXCEPT ![t] = t]
    /\ last_write' = t
    /\ data' \in StoreOutcomes(t, t)
    /\ woke' = <<>>
    /\ UNCHANGED <<lock_state, read_waiters, write_waiters,
                   last_woken_was_writer, read_lock, write_lock, pc,
                   was_writer, scan, woken, write_order, release_run, turn,
                   inner>>

\* Rwlock::into_inner(self): taking the lock by value needs every borrow of
\* it (future or guard) to have ended; the lock is gone afterwards.
IntoInner ==
    /\ \A t \in Tasks : pc[t] = "idle"
    /\ inner' = data
    /\ pc' = [t \in Tasks |-> "consumed"]
    /\ woke' = <<>>
    /\ UNCHANGED <<lock_state, read_waiters, write_waiters,
                   last_woken_was_writer, read_lock, write_lock, was_writer,
                   scan, woken, write_order, release_run, turn, data,
                   written, last_write>>

DataNext ==
    \/ \E t \in HistReaders :
        \/ ReadPollLoad(t)
        \/ ReadPollAcquire(t)
        \/ ReadPollRegister(t)
        \/ ReadCancel(t)
        \/ ReadDropLoad(t)
        \/ ReadDropStore(t)
        \/ ReadDropWake(t)
    \/ \E t \in Writers :
        \/ WritePollLoad(t)
        \/ WritePollClaimData(t)
        \/ WritePollRegister(t)
        \/ WriteCancel(t)
        \/ GuardWrite(t)
        \/ WriteDropLoadFlag(t)
        \/ WriteDropStoreFlag(t)
        \/ WriteDropStoreState(t)
        \/ WriteDropLockRead(t)
        \/ WriteDropLockWrite(t)
        \/ WriteDropWake(t)
    \/ IntoInner

DataSpec == Init /\ [][DataNext]_vars

----------------------------------------------------------------------------
\* Claims

\* C1: in every reachable state at most one write guard is live.
C1_AtMostOneWriteGuard == Cardinality(WriteHeld) <= 1

\* C2: lock_state = -1 implies no read guard is live, lock_state >= 1 implies
\* no write guard is live, and a read poll and a write poll racing for the
\* unlocked lock never both obtain a guard.
C2_StateExcludesGuards ==
    /\ lock_state = -1 => ReadHeld = {}
    /\ lock_state >= 1 => WriteHeld = {}
    /\ ~(ReadHeld # {} /\ WriteHeld # {})

\* C3: when no poll or drop is mid-execution, lock_state >= 1 implies that the
\* number of live read guards equals lock_state, and lock_state = 0 implies
\* that no guard of either kind is live.
C3_ReaderCountMatches ==
    Quiescent =>
        /\ lock_state >= 1 => Cardinality(ReadGuards) = lock_state
        /\ lock_state = 0 => ReadGuards \cup WriteGuards = {}

\* C4: lock_state never holds a value below -1 and no unreachable!() arm is
\* ever executed.
C4_NoUnreachable == lock_state >= -1 /\ ~Panicked

\* C5: a write-guard drop reads was_writer from the flag as it stood when the
\* drop began, stores 0 to lock_state, and in its wake phase either (if
\* (was_writer and readers are queued) or no writer is queued) wakes every
\* queued reader, empties the read queue and leaves the write queue alone, or
\* else pops and wakes exactly the front writer and leaves the read queue
\* alone; it never wakes both a reader and a writer.
C5_WriteRelease ==
    [][\A t \in Writers :
        /\ (pc[t] = "w_held" /\ pc'[t] # "w_held")
              => was_writer'[t] = last_woken_was_writer
        /\ (pc[t] \in WriteGuardPcs \ {"w_held", "wd_wlocked"})
              => was_writer'[t] = was_writer[t]
        /\ (pc[t] = "wd_flag_stored" /\ pc'[t] # "wd_flag_stored")
              => lock_state' = 0
        /\ (pc[t] = "wd_wlocked" /\ pc'[t] # "wd_wlocked")
              => /\ pc'[t] = "idle"
                 /\ IF (was_writer[t] /\ read_waiters # <<>>)
                        \/ write_waiters = <<>>
                      THEN /\ woke' = read_waiters
                           /\ read_waiters' = <<>>
                           /\ write_waiters' = write_waiters
                      ELSE /\ woke' = <<Head(write_waiters)>>
                           /\ write_waiters' = Tail(write_waiters)
                           /\ read_waiters' = read_waiters
                 /\ ~(\E i, j \in 1..Len(woke') :
                        woke'[i] \in Readers /\ woke'[j] \in Writers)
      ]_vars

\* C5 witness: a write release has just drained both queued readers past a
\* queued writer.
C5_Witness ==
    /\ Len(woke) = 2
    /\ \A i \in 1..Len(woke) : woke[i] \in Readers
    /\ read_waiters = <<>>
    /\ write_waiters # <<>>

\* C6: whenever the number of live read guards falls from at least one to
\* zero while a writer's handle is queued (and no writer holds or is claiming
\* the lock), lock_state becomes 0 and exactly the front writer is popped and
\* woken.
C6_LastReaderWakesWriter ==
    [][(/\ ReadGuards # {}
        /\ ReadGuards' = {}
        /\ ~Panicked'
        /\ write_waiters # <<>>
        /\ \A w \in Writers : pc[w] \in {"idle", "w_pending"})
       => /\ lock_state' = 0
          /\ woke' = <<Head(write_waiters)>>
          /\ write_waiters' = Tail(write_waiters)]_vars

\* C7: a read poll that observes lock_state >= 0 takes the fast path however
\* many writers are queued, and the fast path resolves with a read guard,
\* raises lock_state by exactly one and touches no queue.
C7_ReadFastPath ==
    [][\A t \in Readers :
        /\ (pc[t] \in {"idle", "r_pending"} /\ pc'[t] \notin {pc[t], "idle"}
                /\ lock_state >= 0)
              => pc'[t] = "rp_inc"
        /\ (pc[t] = "rp_inc" /\ pc'[t] # "rp_inc")
              => /\ pc'[t] = "r_held"
                 /\ lock_state' = lock_state + 1
                 /\ read_waiters' = read_waiters
                 /\ write_waiters' = write_waiters
      ]_vars

\* C7 witness: one reader holds the only guard (lock_state = 1) although a
\* writer woken by the previous release still waits and another writer is
\* queued: the reader went in past both.
C7_Witness ==
    /\ Cardinality(ReadGuards) = 1
    /\ Cardinality(ReadHeld) = 1
    /\ lock_state = 1
    /\ write_waiters # <<>>
    /\ \E w \in Writers :
          pc[w] = "w_pending" /\ woken[w] /\ AllNotWake(write_waiters, w)
    /\ \A w \in Writers : pc[w] = "w_pending"

\* C8: a write poll produces a guard only if lock_state is exactly 0 at the
\* moment of the claim, the claim moves lock_state from 0 to -1, and no other
\* guard is live at that moment.
C8_WriteClaimFromZero ==
    [][\A t \in Writers :
        (pc[t] = "wp_claim" /\ pc'[t] = "w_held")
            => /\ lock_state = 0
               /\ lock_state' = -1
               /\ ReadHeld = {}
               /\ WriteHeld = {}
      ]_vars

\* A queue holds at most one handle per task.
NoDuplicates(q) == \A i, j \in 1..Len(q) : q[i] = q[j] => i = j

\* C9: each waiter queue holds at most one wake handle per task at all times,
\* and a poll of a task whose handle is already queued leaves the queue
\* unchanged.
C9_IdempotentRegistration ==
    /\ [](NoDuplicates(read_waiters) /\ NoDuplicates(write_waiters))
    /\ [][/\ \A t \in Readers :
               (pc[t] = "rp_queue" /\ pc'[t] = "r_pending"
                    /\ \E i \in 1..Len(read_waiters) : read_waiters[i] = t)
                  => read_waiters' = read_waiters
          /\ \A t \in Writers :
               (pc[t] = "wp_queue" /\ pc'[t] = "w_pending"
                    /\ \E i \in 1..Len(write_waiters) : write_waiters[i] = t)
                  => write_waiters' = write_waiters
         ]_vars

\* C9 witness: a pending writer's latest poll found its own handle already
\* queued, with another writer's handle in the same queue.
C9_Witness ==
    \E t \in Writers :
        /\ pc[t] = "w_pending"
        /\ ~scan[t]
        /\ Len(write_waiters) = 2
        /\ \E i \in 1..Len(write_waiters) : write_waiters[i] = t

\* C10 (as claimed): if writer w1 first registered before writer w2 and has
\* not obtained its guard since, w2 does not obtain a write guard.
C10_FifoGrant ==
    [][\A w1, w2 \in Writers :
        Before(write_order, w1, w2)
            => ~(pc[w2] = "wp_claim" /\ pc'[w2] = "w_held")
      ]_vars

\* C10 (amended): wake-ups of writers are FIFO in queue order: the write
\* queue changes only by appending a handle at the back or by popping and
\* waking its front entry, so no handle is popped before one queued ahead.
C10_FifoWake ==
    [][write_waiters' # write_waiters
        => \/ \E t \in Writers :
                /\ AllNotWake(write_waiters, t)
                /\ write_waiters' = Append(write_waiters, t)
                /\ woke' = <<>>
           \/ /\ write_waiters # <<>>
              /\ write_waiters' = Tail(write_waiters)
              /\ woke' = <<Head(write_waiters)>>
      ]_vars

\* C10 witness: the front writer has just been popped and woken while a later
\* writer stays queued behind it.
C10_Witness ==
    /\ Len(woke) = 1
    /\ woke[1] \in Writers
    /\ write_waiters # <<>>
    /\ Before(write_order, woke[1], write_waiters[1])

\* C11: the fairness flag starts FALSE, every write-guard drop inverts it
\* (so that after k drops it is TRUE exactly when k is odd), and no step of a
\* read poll, a write poll or a read-guard drop changes it.
C11_FlagToggledByEachWriteDrop ==
    /\ ~last_woken_was_writer
    /\ [][/\ \A t \in Writers :
               (pc[t] = "wd_flag_loaded" /\ pc'[t] = "wd_flag_stored")
                  => last_woken_was_writer' = ~last_woken_was_writer
          /\ last_woken_was_writer' # last_woken_was_writer
               => \E t \in Writers :
                     pc[t] = "wd_flag_loaded" /\ pc'[t] = "wd_flag_stored"
         ]_vars

\* C12: from a freshly created lock, as long as every write-guard release
\* finds both waiter queues non-empty, the woken class alternates: the 1st,
\* 3rd, 5th ... release (turn = "even": an even number of drops began before
\* it) pops and wakes exactly the front writer, the 2nd, 4th ... release
\* (turn = "odd") wakes every queued reader and empties the read queue.
C12_WokenClassAlternates ==
    [][\A t \in Writers :
        (/\ pc[t] = "wd_wlocked" /\ pc'[t] = "idle"
         /\ release_run # "broken" /\ turn[t] # "broken"
         /\ read_waiters # <<>> /\ write_waiters # <<>>)
            => IF turn[t] = "even"
                 THEN /\ woke' = <<Head(write_waiters)>>
                      /\ write_waiters' = Tail(write_waiters)
                      /\ read_waiters' = read_waiters
                 ELSE /\ woke' = read_waiters
                      /\ read_waiters' = <<>>
                      /\ write_waiters' = write_waiters
      ]_vars

\* Number of entries of task t in queue q.
Count(q, t) == Len(SelectSeq(q, LAMBDA x : x = t))

\* Number of handles of task t in the two waiter queues.
Queued(t) == Count(read_waiters, t) + Count(write_waiters, t)

\* C13: every handle popped from a waiter queue is woken exactly once by the
\* step that pops it, and a wake-up consumes the task's registration: the
\* woken handle was the task's only queued handle, it is gone from the queues
\* afterwards, and only the task's own next registration puts a handle back.
\* Hence releases wake a task at most once between its registration and its
\* next poll.
C13_WokenOncePerRegistration ==
    [][\A t \in Tasks :
        LET before == Queued(t)
            after == Queued(t)'
            wakes == Count(woke', t)
        IN  /\ after < before => wakes = before - after
            /\ wakes <= 1
            /\ wakes = 1 => before = 1 /\ after = 0
            /\ after > before
                  => /\ pc[t] \in {"rp_queue", "wp_queue"}
                     /\ pc'[t] \in {"r_pending", "w_pending"}
      ]_vars

\* C13 witness: a write release has just woken both registered readers, each
\* still pending and neither left in a queue.
C13_Witness ==
    /\ Len(woke) = 2
    /\ \A i \in 1..Len(woke) :
          pc[woke[i]] = "r_pending" /\ woken[woke[i]] /\ Queued(woke[i]) = 0

\* The lock rests unlocked with no guard live and no wake-up outstanding,
\* while a task with an unresolved future has its handle queued: nothing
\* that has happened so far will ever run that task again.
Stranded ==
    /\ Quiescent
    /\ ReadGuards \cup WriteGuards = {}
    /\ lock_state = 0
    /\ \A t \in Tasks : ~woken[t]
    /\ \E t \in Tasks : pc[t] \in {"r_pending", "w_pending"} /\ Queued(t) >= 1

\* C14: abandoning a pending future is harmless: the abandoned handle stays
\* queued, waking it changes nobody's state, and a release never spends its
\* wake-up on inert handles alone so as to leave the lock at rest, unlocked,
\* with a live waiter still queued and nobody woken.
C14_CancelHarmless ==
    [][/\ \A t \in Tasks :
            (pc[t] \in {"r_pending", "w_pending"} /\ pc'[t] = "idle")
               => read_waiters' = read_waiters /\ write_waiters' = write_waiters
       /\ \A t \in Tasks : (pc[t] = "idle" /\ pc'[t] = "idle") => ~woken'[t]
       /\ ~(/\ woke' # <<>>
            /\ \A i \in 1..Len(woke') : pc[woke'[i]] \notin WaitingPcs
            /\ Stranded')
      ]_vars

\* No task other than t is polling, waiting, holding or dropping.
Alone(t) == \A u \in Tasks \ {t} : pc[u] = "idle"

\* The value lock_state has at position p of a task that polled the unlocked
\* lock while it was alone with it.
TripState(p) ==
    IF p \in {"r_held", "rd_store"} THEN 1
    ELSE IF p \in {"w_held", "wd_flag_loaded", "wd_flag_stored"} THEN -1
    ELSE 0

\* The positions of a poll that found the lock unlocked, of the guard it
\* returned and of the drop of that guard.
TripPcs ==
    {"idle", "rp_inc", "r_held", "rd_store", "rd_wake", "wp_claim"}
        \cup WriteGuardPcs

\* C15: with both queues empty and every other task idle throughout, a task
\* that polls the unlocked lock obtains its guard at once (lock_state 0 -> 1
\* resp. 0 -> -1), and the drop of that guard brings lock_state back to 0;
\* no step of the round trip queues or wakes anybody.
C15_UncontendedRoundTrip ==
    [][\A t \in Tasks :
        (/\ Alone(t) /\ pc'[t] # pc[t]
         /\ read_waiters = <<>> /\ write_waiters = <<>>
         /\ pc[t] \in TripPcs /\ lock_state = TripState(pc[t]))
            => /\ read_waiters' = <<>> /\ write_waiters' = <<>>
               /\ woke' = <<>>
               /\ \A u \in Tasks : ~woken'[u]
               /\ pc'[t] \in TripPcs /\ lock_state' = TripState(pc'[t])
               /\ pc[t] = "rp_inc" => pc'[t] = "r_held"
               /\ pc[t] = "wp_claim" => pc'[t] = "w_held"
               /\ pc[t] \in {"rd_wake", "wd_wlocked"} => pc'[t] = "idle"
               /\ pc[t] \in ReadGuardPcs => pc'[t] \in ReadGuardPcs \cup {"idle"}
               /\ pc[t] \in WriteGuardPcs => pc'[t] \in WriteGuardPcs \cup {"idle"}
      ]_vars

\* C15 witness: a writer that is alone with the lock has run its drop up to
\* the wake phase: lock_state is 0 again and both queues are empty.
C15_Witness ==
    \E t \in Writers :
        /\ pc[t] = "wd_wlocked" /\ Alone(t)
        /\ lock_state = 0 /\ ~was_writer[t] /\ last_woken_was_writer
        /\ read_waiters = <<>> /\ write_waiters = <<>>

\* C16: into_inner returns the value of the latest mutation made through a
\* write guard (the initial value if there was none), and the protected
\* value changes only in a step that stores through a write guard in use:
\* no poll, no release and no read guard changes it.
C16_IntoInnerLatestWrite ==
    /\ [](inner # NoValue => inner = last_write)
    /\ [][data' # data
            => \E t \in Writers :
                  /\ pc[t] = "w_held" /\ pc'[t] = "w_held"
                  /\ last_write' = t
         ]_vars

\* C17: every change of lock_state is one of the six valid transitions and is
\* made by the operation of its kind: a read acquire moves n >= 0 to n + 1,
\* a read release moves n >= 1 to n - 1, a write acquire moves 0 to -1 and a
\* write release moves -1 to 0.
C17_ValidTransitions ==
    [][lock_state' # lock_state
        => \/ /\ \E t \in Readers : pc[t] = "rp_inc" /\ pc'[t] = "r_held"
              /\ lock_state >= 0
              /\ lock_state' = lock_state + 1
           \/ /\ \E t \in Readers :
                    pc[t] \in {"rd_dec", "rd_store"} /\ pc'[t] # pc[t]
              /\ lock_state >= 1
              /\ lock_state' = lock_state - 1
           \/ /\ \E t \in Writers : pc[t] = "wp_claim" /\ pc'[t] = "w_held"
              /\ lock_state = 0
              /\ lock_state' = -1
           \/ /\ \E t \in Writers :
                    pc[t] = "wd_flag_stored" /\ pc'[t] = "wd_state_stored"
              /\ lock_state = -1
              /\ lock_state' = 0
      ]_vars

\* C18: a read poll or write poll that observes lock_state = -1, and a write
\* poll that observes lock_state >= 1, returns Pending: it takes the
\* registering arm, and its registration leaves lock_state and the flag
\* unchanged and ends with the task's handle in the read queue (read poll)
\* or the write queue (write poll).  No step of a poll removes a queue entry.
C18_PollWhileLocked ==
    [][/\ \A t \in Readers :
            /\ (pc[t] \in {"idle", "r_pending"} /\ pc'[t] # pc[t]
                    /\ pc'[t] # "idle" /\ lock_state = -1)
                  => pc'[t] = "rp_queue" /\ lock_state' = lock_state
            /\ (pc[t] = "rp_queue" /\ pc'[t] # pc[t])
                  => /\ pc'[t] = "r_pending"
                     /\ Count(read_waiters', t) >= 1
       /\ \A t \in Writers :
            /\ (pc[t] \in {"idle", "w_pending"} /\ pc'[t] # pc[t]
                    /\ pc'[t] # "idle"
                    /\ (lock_state = -1 \/ lock_state >= 1))
                  => pc'[t] = "wp_queue" /\ lock_state' = lock_state
            /\ (pc[t] = "wp_queue" /\ pc'[t] # pc[t])
                  => /\ pc'[t] = "w_pending"
                     /\ Count(write_waiters', t) >= 1
       /\ \A t \in Tasks :
            (pc[t] \in {"idle", "r_pending", "w_pending", "rp_queue",
                        "wp_queue", "rp_inc", "wp_claim"}
                /\ pc'[t] # pc[t])
               => /\ \A u \in Tasks : Count(read_waiters', u) >= Count(read_waiters, u)
                  /\ \A u \in Tasks : Count(write_waiters', u) >= Count(write_waiters, u)
                  /\ last_woken_was_writer' = last_woken_was_writer
                  /\ pc[t] \notin {"rp_inc", "wp_claim"}
                        => lock_state' = lock_state
      ]_vars

\* C18 witness: while a write guard is in use (lock_state = -1) a reader and
\* the other writer have polled and each is pending with its handle queued.
C18_Witness ==
    /\ lock_state = -1
    /\ Cardinality(WriteHeld) = 1
    /\ \E r \in Readers : pc[r] = "r_pending" /\ Count(read_waiters, r) = 1
    /\ \E w \in Writers : pc[w] = "w_pending" /\ Count(write_waiters, w) = 1

\* C19: a read-guard drop that begins while at least two read guards are in
\* use takes the decrementing arm; the decrement lowers lock_state by exactly
\* one, wakes nobody and leaves both queues and the flag unchanged; and no
\* step of any read-guard drop changes the read queue or wakes a reader.
C19_ReaderDropNotLast ==
    [][\A t \in Readers :
        /\ (pc[t] = "r_held" /\ pc'[t] # "r_held" /\ Cardinality(ReadHeld) >= 2)
              => pc'[t] = "rd_dec"
        /\ (pc[t] = "rd_dec" /\ pc'[t] # "rd_dec")
              => /\ lock_state' = lock_state - 1
                 /\ woke' = <<>>
                 /\ read_waiters' = read_waiters
                 /\ write_waiters' = write_waiters
                 /\ last_woken_was_writer' = last_woken_was_writer
        /\ (pc[t] \in ReadGuardPcs /\ pc'[t] # pc[t])
              => /\ read_waiters' = read_waiters
                 /\ \A i \in 1..Len(woke') : woke'[i] \notin Readers
      ]_vars

\* C20: no wake-up is lost: the lock never rests unlocked, with no guard
\* live and no wake-up outstanding, while a task whose future is unresolved
\* has its handle queued.
C20_NoLostWakeup == ~Stranded

----------------------------------------------------------------------------
\* A poll or a drop of task t is executing (it has begun and not returned).
InOperation(t) == pc[t] \notin RestPcs \cup {"panicked"}

\* The queue lock the next instruction of task t acquires (lock_save_irq).
LockWanted(t) ==
    IF pc[t] \in {"rp_queue", "wd_state_stored"} THEN "read_waiters"
    ELSE IF pc[t] \in {"wp_queue", "rd_wake", "wd_rlocked"} THEN "write_waiters"
    ELSE "none"

\* The task that holds the lock task t is about to acquire (NoTask: the lock
\* is free, or t acquires none).
Holder(t) ==
    IF LockWanted(t) = "read_waiters" THEN read_lock
    ELSE IF LockWanted(t) = "write_waiters" THEN write_lock
    ELSE NoTask

\* Task t spins in lock_save_irq.
Spinning(t) == Holder(t) # NoTask

\* The next instruction of the operation task t is executing.
OpStep(t) ==
    \/ ReadPollAcquire(t)
    \/ ReadPollRegister(t)
    \/ ReadDropDecrement(t)
    \/ ReadDropStore(t)
    \/ ReadDropWake(t)
    \/ WritePollClaim(t)
    \/ WritePollRegister(t)
    \/ WriteDropStoreFlag(t)
    \/ WriteDropStoreState(t)
    \/ WriteDropLockRead(t)
    \/ WriteDropLockWrite(t)
    \/ WriteDropWake(t)

\* Every executing operation can take its next instruction unless it spins
\* on a queue lock (or a panic has halted the cores), and the holder of that
\* lock is executing and does not spin.
NoDeadlock ==
    /\ \A t \in Tasks :
          InOperation(t) =>
              ((ENABLED OpStep(t)) <=> (~Spinning(t) /\ ~Panicked))
    /\ \A t \in Tasks :
          Spinning(t) => InOperation(Holder(t)) /\ ~Spinning(Holder(t))

\* The queue locks are taken in one order: whoever holds the lock of
\* write_waiters across instructions holds the lock of read_waiters too.
LockOrder ==
    /\ write_lock # NoTask => read_lock = write_lock
    /\ \A t \in Tasks : read_lock = t => pc[t] \in {"wd_rlocked", "wd_wlocked"}

\* C21: no poll and no guard drop waits on another task except by spinning
\* on a queue lock whose holder is itself running and not spinning: the two
\* queue locks are only ever held together in the order read_waiters, then
\* write_waiters, every executing operation can take its next instruction
\* whenever the lock it needs is free, and the wake phase of a
\* write-guard drop pops at most one handle per reader task and needs no
\* step of any other task.
C21_DropsAndPollsTerminate ==
    /\ [](LockOrder /\ NoDeadlock)
    /\ [][\A t \in Tasks :
            (pc[t] = "wd_wlocked" /\ pc'[t] # "wd_wlocked")
               => /\ pc'[t] = "idle"
                  /\ Len(woke') <= NReaders
                  /\ read_lock' = NoTask /\ write_lock' = NoTask
                  /\ read_waiters' \in {<<>>, read_waiters}
         ]_vars

\* A write-guard drop holds both queue locks and is about to drain a
\* non-empty read queue, while a read poll spins on the lock of read_waiters
\* and a write poll spins on the lock of write_waiters.
C21_Witness ==
    \E w \in Writers :
        /\ pc[w] = "wd_wlocked"
        /\ WakeReaders(was_writer[w], read_waiters, write_waiters)
        /\ read_waiters # <<>>
        /\ \E r \in Readers : pc[r] = "rp_queue" /\ Holder(r) = w
        /\ \E u \in Writers : pc[u] = "wp_queue" /\ Holder(u) = w

\* C22: a task that owns a guard (from the poll that returned it until the
\* guard's drop returns) has no handle in a waiter queue: every queued
\* handle belongs to a task whose acquisition is pending or was abandoned.
C22_GuardHolderNotQueued ==
    \A t \in ReadGuards \cup WriteGuards : Queued(t) = 0

\* C23: when a write-guard drop returns, last_woken_was_writer is TRUE
\* exactly when that drop woke a writer, and FALSE when it woke readers or
\* nobody.
C23_FlagTellsWhoWasWoken ==
    [][\A t \in Writers :
        (pc[t] = "wd_wlocked" /\ pc'[t] = "idle")
           => (last_woken_was_writer'
                  <=> (woke' # <<>> /\ woke'[1] \in Writers))
      ]_vars

====
